---- MODULE Spec2Model ----
(***************************************************************************)
(* Model of the sister-record module of script.js: the module-level store  *)
(* sistersData, the loader loadSistersData, the lookups checkSisterExists  *)
(* and getSisterData, and the validator validateSisterData.                *)
(*                                                                         *)
(* JavaScript values are records [t, s]: t is the type tag ("str", "undef" *)
(* for undefined/missing, "num" for a truthy non-string such as 42) and s  *)
(* the characters of a string (<<>> for the other tags).                   *)
(***************************************************************************)
EXTENDS Integers, Sequences, FiniteSets, Bags, TLC

VARIABLES sistersData, calls, lookupLoaded, lastLoad, candidate, vresult

vars == <<sistersData, calls, lookupLoaded, lastLoad, candidate, vresult>>

\* ---------------------------------------------------------------- bounds

\* Number of async calls that can be pending at once.
MaxCalls == 2

\* Longest images array of a validated candidate.
MaxImages == 2

\* ---------------------------------------------------------------- values

Str(s) == [t |-> "str", s |-> s]

Undef == [t |-> "undef", s |-> <<>>]

Num == [t |-> "num", s |-> <<>>]

IsStr(v) == v.t = "str"

\* String.prototype.toLowerCase on one character of the alphabet.
LowerChar(c) == IF c = "A" THEN "a" ELSE IF c = "B" THEN "b" ELSE c

\* String.prototype.toLowerCase
ToLowerCase(s) == [i \in 1..Len(s) |-> LowerChar(s[i])]

RECURSIVE TrimStart(_)
TrimStart(s) == IF s # <<>> /\ Head(s) = " " THEN TrimStart(Tail(s)) ELSE s

RECURSIVE TrimEnd(_)
TrimEnd(s) ==
    IF s # <<>> /\ s[Len(s)] = " " THEN TrimEnd(SubSeq(s, 1, Len(s) - 1)) ELSE s

\* String.prototype.trim
Trim(s) == TrimEnd(TrimStart(s))

\* x.toLowerCase().trim() as written in both lookups
Normalize(s) == Trim(ToLowerCase(s))

\* ---------------------------------------------------------------- records

\* One element of data.json: the lookups read only its name; the greeting
\* tells apart two records whose names normalize to the same key.
Rec(n, g) == [name |-> n, greeting |-> g]

RecA1 == Rec(Str(<<"a", " ">>), "first a")

RecA2 == Rec(Str(<<" ", "A">>), "second a")

RecB == Rec(Str(<<"B">>), "b")

\* An element without a usable name field.
RecNoName == Rec(Undef, "nameless")

WellFormedRec(r) == IsStr(r.name)

WellFormed(seq) == \A i \in 1..Len(seq) : WellFormedRec(seq[i])

\* The arrays response.json() can produce on the fetches of a session.
Bodies ==
    { <<>>,
      <<RecA1, RecA2>>,
      <<RecB>>,
      <<RecA2, RecNoName>> }

\* The name arguments of a lookup.
Names ==
    { Str(<<>>), Str(<<"a", " ">>), Str(<<" ", "A">>), Str(<<"B">>), Num }

\* ---------------------------------------------------------------- lookups

\* Result of a lookup: a boolean (checkSisterExists), a record or null
\* (getSisterData); "none" while the call has not resolved.
NoRes == [k |-> "none", b |-> FALSE, r |-> RecNoName]

BoolRes(b) == [k |-> "bool", b |-> b, r |-> RecNoName]

RecRes(r) == [k |-> "rec", b |-> FALSE, r |-> r]

NullRes == [k |-> "null", b |-> FALSE, r |-> RecNoName]

\* Completion of a function body: a returned value or a thrown error.
Returned(v) == [threw |-> FALSE, val |-> v]

Thrown == [threw |-> TRUE, val |-> NoRes]

\* The callback of some/find: sister.name.toLowerCase().trim() === key.
\* "throw" when sister.name has no toLowerCase method.
Matches(sister, key) ==
    IF ~IsStr(sister.name) THEN "throw"
    ELSE IF Normalize(sister.name.s) = key THEN "true" ELSE "false"

\* Array.prototype.find with that callback, from index i on: the index of the
\* first match, 0 when there is none, -1 when the callback throws first.
RECURSIVE FindFrom(_, _, _)
FindFrom(store, key, i) ==
    IF i > Len(store) THEN 0
    ELSE LET m == Matches(store[i], key)
         IN  IF m = "throw" THEN -1
             ELSE IF m = "true" THEN i
             ELSE FindFrom(store, key, i + 1)

\* Faulty variant of FindIndex: a find that keeps the last match instead of
\* the first.
RECURSIVE FindLastFrom(_, _, _)
FindLastFrom(store, key, i) ==
    IF i < 1 THEN 0
    ELSE LET m == Matches(store[i], key)
         IN  IF m = "throw" THEN -1
             ELSE IF m = "true" THEN i
             ELSE FindLastFrom(store, key, i - 1)

FindIndexLast(store, key) == FindLastFrom(store, key, Len(store))

FindIndex(store, key) == FindFrom(store, key, 1)

\* Body of the try block of checkSisterExists after the load.
ExistsBody(store, name) ==
    IF ~IsStr(name) THEN Thrown
    ELSE LET i == FindIndex(store, Normalize(name.s))
         IN  IF i = -1 THEN Thrown ELSE Returned(BoolRes(i > 0))

\* Body of the try block of getSisterData after the load.
GetBody(store, name) ==
    IF ~IsStr(name) THEN Thrown
    ELSE LET i == FindIndex(store, Normalize(name.s))
         IN  IF i = -1 THEN Thrown
             ELSE IF i = 0 THEN Returned(NullRes)
             ELSE Returned(RecRes(store[i]))

\* Faulty variant of Catch: a lookup without its catch clause.
NoCatch(outcome, fallback) == outcome

\* try { ... } catch (error) { console.error(...); return fallback; }
Catch(outcome, fallback) == IF outcome.threw THEN Returned(fallback) ELSE outcome

\* What the lookup op resolves to when it scans the given store.
Scan(op, store, name) ==
    IF op = "exists" THEN Catch(ExistsBody(store, name), BoolRes(FALSE))
    ELSE Catch(GetBody(store, name), NullRes)

\* ---------------------------------------------------------------- loader

\* Faulty variant of ShouldLoad: a lookup that loads whatever the store holds.
AlwaysLoad(store) == TRUE

\* if (sistersData.length === 0)
ShouldLoad(store) == Len(store) = 0

\* Faulty variant of StoreOnSuccess: a loader that merges the response into
\* the store.
MergeOnSuccess(store, body) == store \o body

\* sistersData = await response.json();
StoreOnSuccess(store, body) == body

\* Faulty variant of StoreOnFailure: a catch clause that leaves the store alone.
KeepOnFailure(store) == store

\* catch: sistersData = [];
StoreOnFailure(store) == <<>>

\* ---------------------------------------------------------------- session

\* A pending call; calls is the bag of them. op: the function called; pc:
\* where its async body stands ("fetch": awaiting fetch('data.json'); "json":
\* awaiting response.json(); "resume": loadSistersData has returned into a
\* lookup whose continuation is queued; "done": resolved, the value not yet
\* consumed). afterFail: the call is a getSisterData made when the latest
\* completed load had failed. own/ownBody: outcome of the call's load and the
\* array it parsed. ret: the array a direct loadSistersData() resolved to.
\* name/result/raised: the argument of a lookup, and what it resolved to.
\*
\* A lookup reads its argument first at name.toLowerCase(), after the await:
\* a lookup that loads gets its argument in Resume, where it is first read,
\* one that scans at once gets it in CallLookup.
NewCall(op) ==
    [ op |-> op, pc |-> "fetch", name |-> Undef, afterFail |-> FALSE,
      own |-> "none", ownBody |-> <<>>, ret |-> <<>>,
      result |-> NoRes, raised |-> FALSE ]

Pending == BagToSet(calls)

Add(call) == calls (+) SetToBag({call})

Replace(old, new) == (calls (-) SetToBag({old})) (+) SetToBag({new})

\* The synchronous tail of a lookup: normalize, scan, resolve.
Finish(call, store, name) ==
    LET o == Scan(call.op, store, name)
    IN  [call EXCEPT !.pc = "done", !.name = name,
                     !.result = o.val, !.raised = o.threw]

\* loadSistersData() called directly: runs up to await fetch('data.json').
CallLoad ==
    /\ BagCardinality(calls) < MaxCalls
    /\ calls' = Add(NewCall("load"))
    /\ UNCHANGED <<sistersData, lookupLoaded, lastLoad, candidate, vresult>>

\* checkSisterExists(name) / getSisterData(name) called: tests the store and
\* either starts a load (suspending at its fetch) or scans at once.
CallLookup(op, name) ==
    /\ BagCardinality(calls) < MaxCalls
    /\ LET call == [NewCall(op) EXCEPT
                        !.afterFail = (op = "get" /\ lastLoad = "fail")]
       IN  IF ShouldLoad(sistersData)
           THEN /\ calls' = Add(call)
                /\ lookupLoaded' = TRUE
           ELSE /\ calls' = Add(Finish(call, sistersData, name))
                /\ UNCHANGED lookupLoaded
    /\ UNCHANGED <<sistersData, lastLoad, candidate, vresult>>

\* Faulty variant of LoadValue: a loader that returns a fresh empty array.
LoadValueEmpty(store) == <<>>

\* return sistersData;
LoadValue(store) == store

\* loadSistersData returns: into the lookup awaiting it, or to the caller.
LoadReturns(call, how, body, store) ==
    IF call.op = "load"
    THEN [call EXCEPT !.pc = "done", !.own = how, !.ownBody = body,
                      !.ret = LoadValue(store)]
    ELSE [call EXCEPT !.pc = "resume", !.own = how, !.ownBody = body]

\* The catch clause of loadSistersData runs and the function returns the
\* store it has just reset.
LoadFails(call) ==
    LET store == StoreOnFailure(sistersData)
    IN  /\ sistersData' = store
        /\ lastLoad' = "fail"
        /\ calls' = Replace(call, LoadReturns(call, "fail", <<>>, store))
        /\ UNCHANGED <<lookupLoaded, candidate, vresult>>

\* fetch settles: it rejects, or resolves with a response that is not ok
\* (both reach the catch clause), or resolves ok and the body is read.
FetchSettles(call, how) ==
    /\ call.pc = "fetch"
    /\ IF how = "ok"
       THEN /\ calls' = Replace(call, [call EXCEPT !.pc = "json"])
            /\ UNCHANGED <<sistersData, lookupLoaded, lastLoad, candidate, vresult>>
       ELSE LoadFails(call)

\* response.json() rejects: the body is not JSON.
JsonFails(call) ==
    /\ call.pc = "json"
    /\ LoadFails(call)

\* response.json() resolves with the array body: the store is replaced and
\* returned.
JsonParses(call, body) ==
    /\ call.pc = "json"
    /\ LET store == StoreOnSuccess(sistersData, body)
       IN  /\ sistersData' = store
           /\ lastLoad' = "ok"
           /\ calls' = Replace(call, LoadReturns(call, "ok", body, store))
    /\ UNCHANGED <<lookupLoaded, candidate, vresult>>

\* The continuation of a lookup after await loadSistersData(): it scans the
\* store as it is now.
Resume(call, name) ==
    /\ call.pc = "resume"
    /\ calls' = Replace(call, Finish(call, sistersData, name))
    /\ UNCHANGED <<sistersData, lookupLoaded, lastLoad, candidate, vresult>>

\* The caller has consumed the resolved value.
Return(call) ==
    /\ call.pc = "done"
    /\ calls' = calls (-) SetToBag({call})
    /\ UNCHANGED <<sistersData, lookupLoaded, lastLoad, candidate, vresult>>

\* ---------------------------------------------------------------- validator

\* The argument of validateSisterData: null, or an object whose name,
\* greeting and message are values and whose images is missing ("undef"), a
\* truthy non-array ("num") or an array of values ("arr").
Obj(n, g, m, im) == [t |-> "obj", name |-> n, greeting |-> g, message |-> m, images |-> im]

NoImages == [t |-> "undef", items |-> <<>>]

NotAnArray == [t |-> "num", items |-> <<>>]

Arr(items) == [t |-> "arr", items |-> items]

NullCandidate == [t |-> "null", name |-> Undef, greeting |-> Undef,
                  message |-> Undef, images |-> NoImages]

NoCandidate == [NullCandidate EXCEPT !.t = "none"]

\* Values of a text field of a candidate.
FieldValues == { Undef, Num, Str(<<>>), Str(<<" ">>), Str(<<"a">>) }

\* Values of an entry of images: "a" and ":a" have no scheme, "a:" and " a:"
\* are the URL of scheme a with an empty path.
UrlValues ==
    { Undef, Num, Str(<<>>), Str(<<" ">>), Str(<<"a">>), Str(<<"a", ":">>),
      Str(<<" ", "a", ":">>), Str(<<":", "a">>) }

RECURSIVE SeqsUpTo(_, _)
SeqsUpTo(S, n) ==
    IF n = 0 THEN { <<>> }
    ELSE LET shorter == SeqsUpTo(S, n - 1)
         IN  shorter \cup { Append(s, x) : s \in shorter, x \in S }

ImagesValues == { NoImages, NotAnArray } \cup { Arr(s) : s \in SeqsUpTo(UrlValues, MaxImages) }

Candidates ==
    { NullCandidate } \cup
    { Obj(n, g, m, im) : n \in FieldValues, g \in FieldValues,
                         m \in FieldValues, im \in ImagesValues }

\* The letters of the alphabet of the image entries.
SchemeChars == { "a" }

\* new URL(url) does not throw: after stripping leading and trailing spaces
\* the input starts with a scheme (a letter, then scheme characters, then
\* ":"); what follows a scheme that is not special is an opaque path, which
\* never fails. The alphabet spells no special scheme.
IsValidURL(s) ==
    LET u == Trim(s)
    IN  \E i \in 2..Len(u) :
            /\ u[i] = ":"
            /\ \A j \in 1..(i - 1) : u[j] \in SchemeChars

\* JavaScript falsiness of a value: undefined and the empty string.
Falsy(v) == v.t = "undef" \/ (IsStr(v) /\ v.s = <<>>)

\* State of the function body: it has thrown, or the errors pushed so far.
Running(errors) == [threw |-> FALSE, errors |-> errors]

Aborted == [threw |-> TRUE, errors |-> <<>>]

\* if (!sisterData.f || sisterData.f.trim() === '') errors.push(msg);
\* v.trim() throws when v is truthy and no string.
CheckField(acc, v, msg) ==
    IF acc.threw THEN acc
    ELSE IF Falsy(v) THEN Running(Append(acc.errors, msg))
    ELSE IF ~IsStr(v) THEN Aborted
    ELSE IF Trim(v.s) = <<>> THEN Running(Append(acc.errors, msg))
    ELSE acc

\* Faulty variant of ImageMessage: a message numbered from 0.
ImageMessageFromZero(index) == "Image URL " \o ToString(index) \o " is not valid"

\* `Image URL ${index + 1} is not valid`, index counted from 0
ImageMessage(index) == "Image URL " \o ToString(index + 1) \o " is not valid"

\* The forEach callback on entry k (1-based) of images.
CheckImage(acc, url, k) ==
    IF acc.threw THEN acc
    ELSE IF Falsy(url) THEN acc
    ELSE IF ~IsStr(url) THEN Aborted
    ELSE IF Trim(url.s) = <<>> THEN acc
    ELSE IF IsValidURL(url.s) THEN acc
    ELSE Running(Append(acc.errors, ImageMessage(k - 1)))

\* sisterData.images.forEach(...) from entry k on.
RECURSIVE ForEachImage(_, _, _)
ForEachImage(acc, items, k) ==
    IF k > Len(items) THEN acc
    ELSE ForEachImage(CheckImage(acc, items[k], k), items, k + 1)

\* if (sisterData.images && Array.isArray(sisterData.images)) ...
CheckImages(acc, images) ==
    IF images.t = "arr" THEN ForEachImage(acc, images.items, 1) ELSE acc

NoVResult == [called |-> FALSE, threw |-> FALSE, isValid |-> FALSE, errors |-> <<>>]

\* validateSisterData(cand): reading a property of null throws.
ValidateSisterData(cand) ==
    LET start == IF cand.t = "null" THEN Aborted ELSE Running(<<>>)
        n == CheckField(start, cand.name, "Name is required")
        g == CheckField(n, cand.greeting, "Greeting is required")
        m == CheckField(g, cand.message, "Message is required")
        end == CheckImages(m, cand.images)
    IN  [ called |-> TRUE, threw |-> end.threw,
          isValid |-> (~end.threw /\ Len(end.errors) = 0), errors |-> end.errors ]

\* validateSisterData is called on some candidate and runs to its end (it is synchronous).
Validate ==
    /\ ~vresult.called
    /\ \E cand \in Candidates :
        /\ candidate' = cand
        /\ vresult' = ValidateSisterData(cand)
    /\ UNCHANGED <<sistersData, calls, lookupLoaded, lastLoad>>

\* The caller has consumed the result (or caught the error).
ValidateReturns ==
    /\ vresult.called
    /\ candidate' = NoCandidate
    /\ vresult' = NoVResult
    /\ UNCHANGED <<sistersData, calls, lookupLoaded, lastLoad>>

\* ---------------------------------------------------------------- specifications

Init ==
    /\ sistersData = <<>>
    /\ calls = EmptyBag
    /\ lookupLoaded = FALSE
    /\ lastLoad = "none"
    /\ candidate = NoCandidate
    /\ vresult = NoVResult

Next ==
    \/ CallLoad
    \/ \E op \in {"exists", "get"}, name \in Names : CallLookup(op, name)
    \/ \E call \in Pending, how \in {"reject", "notok", "ok"} : FetchSettles(call, how)
    \/ \E call \in Pending : JsonFails(call)
    \/ \E call \in Pending, body \in Bodies : JsonParses(call, body)
    \/ \E call \in Pending, name \in Names : Resume(call, name)
    \/ \E call \in Pending : Return(call)

\* A page session: loads and lookups, interleaved at their awaits.
Spec == Init /\ [][Next]_vars

NextValidate ==
    \/ Validate
    \/ ValidateReturns

\* Calls of the validator, which touches no shared state.
SpecValidate == Init /\ [][NextValidate]_vars

\* ---------------------------------------------------------------- properties

Lookups == { "exists", "get" }

\* The call a step has changed, before and after the step.
Old == BagToSet(calls (-) calls')

New == BagToSet(calls' (-) calls)

\* n is a lookup that resolves on this step, having scanned sistersData.
Resolves(n) == n \in New /\ n.pc = "done" /\ n.op \in Lookups

\* n is a call whose load completes on this step.
LoadCompletes(n) ==
    /\ n \in New
    /\ n.pc \in { "resume", "done" }
    /\ \E o \in Old : o.pc \in { "fetch", "json" }

MinOf(S) == CHOOSE x \in S : \A y \in S : x <= y

MaxOf(S) == CHOOSE x \in S : \A y \in S : x >= y

\* The lookup key of a string, stated on its characters: the lower-cased
\* characters from the first to the last one that is no space.
KeyOf(s) ==
    LET solid == { i \in 1..Len(s) : s[i] # " " }
        low(ch) == IF ch = "A" THEN "a" ELSE IF ch = "B" THEN "b" ELSE ch
    IN  IF solid = {} THEN <<>>
        ELSE [ i \in 1..(MaxOf(solid) - MinOf(solid) + 1) |->
                 low(s[MinOf(solid) + i - 1]) ]

\* Indices of the records of store whose key is the key of name.
MatchesOf(store, name) ==
    { i \in 1..Len(store) : KeyOf(store[i].name.s) = KeyOf(name.s) }

C2_LoadRoundTrip ==
    [][\A n \in New :
          /\ (LoadCompletes(n) /\ n.own = "ok" /\ WellFormed(n.ownBody)) =>
                /\ sistersData' = n.ownBody
                /\ Len(sistersData') = Len(n.ownBody)
                /\ (n.op = "load" => n.ret = n.ownBody)
          /\ (Resolves(n) /\ n.op = "exists" /\ WellFormed(sistersData)
                /\ \E i \in 1..Len(sistersData) : sistersData[i].name = n.name) =>
                n.result = BoolRes(TRUE)]_vars

\* A checkSisterExists whose own load parsed two records has resolved to true
\* on the raw name of the second, and a direct load has returned that array.
C2_Witness ==
    /\ \E r \in Pending : /\ r.op = "exists" /\ r.pc = "done" /\ r.own = "ok"
                          /\ r.ownBody = <<RecA1, RecA2>>
                          /\ r.name = RecA2.name /\ r.result = BoolRes(TRUE)
    /\ \E r \in Pending : /\ r.op = "load" /\ r.pc = "done"
                          /\ r.ret = <<RecA1, RecA2>>

\* C3: on a populated store of well-formed records and a string name,
\* checkSisterExists is true iff some record has the key of the name, and
\* getSisterData is the first such record in store order, null if none.
C3_LookupByKey ==
    [][\A n \in New :
          (Resolves(n) /\ sistersData # <<>> /\ WellFormed(sistersData) /\ IsStr(n.name)) =>
             LET M == MatchesOf(sistersData, n.name)
             IN  /\ ~n.raised
                 /\ n.op = "exists" => n.result = BoolRes(M # {})
                 /\ n.op = "get" =>
                       n.result = IF M = {} THEN NullRes
                                  ELSE RecRes(sistersData[MinOf(M)])]_vars

\* Over the store of two records of key "a", getSisterData(" A") has resolved
\* to the first and getSisterData("") to null.
C3_Witness ==
    /\ sistersData = <<RecA1, RecA2>>
    /\ \E r \in Pending : /\ r.op = "get" /\ r.pc = "done"
                          /\ r.name = Str(<<" ", "A">>) /\ r.result = RecRes(RecA1)
    /\ \E r \in Pending : /\ r.op = "get" /\ r.pc = "done"
                          /\ r.name = Str(<<>>) /\ r.result = NullRes

\* C4 (as claimed): at most one load is ever issued by the lookups of a
\* session.
C4_AtMostOneLoad ==
    [][\A n \in New : (n.pc = "fetch" /\ n.op \in Lookups) => ~lookupLoaded]_vars

\* C7: a lookup never raises, and resolves to false / null when its body
\* throws: on a name that is no string, or on a record without a name reached
\* before any match.
C7_LookupsNeverRaise ==
    [][\A n \in New :
          Resolves(n) =>
             /\ ~n.raised
             /\ n.op = "exists" => n.result.k = "bool"
             /\ n.op = "get" => n.result.k \in { "rec", "null" }
             /\ LET bad == { i \in 1..Len(sistersData) : ~IsStr(sistersData[i].name) }
                    throws ==
                       \/ ~IsStr(n.name)
                       \/ /\ bad # {}
                          /\ \A i \in 1..(MinOf(bad) - 1) :
                                KeyOf(sistersData[i].name.s) # KeyOf(n.name.s)
                IN  throws =>
                       n.result = IF n.op = "exists" THEN BoolRes(FALSE) ELSE NullRes]_vars

\* A lookup with a name that is no string, and one that scanned a store with a
\* nameless record, have both resolved to their fallback.
C7_Witness ==
    /\ sistersData = <<RecA2, RecNoName>>
    /\ \E r \in Pending : /\ r.op = "exists" /\ r.pc = "done" /\ r.name = Num
                          /\ r.result = BoolRes(FALSE) /\ ~r.raised
    /\ \E r \in Pending : /\ r.op = "get" /\ r.pc = "done" /\ r.name = Str(<<>>)
                          /\ r.result = NullRes /\ ~r.raised

\* C8: a lookup called on a non-empty store resolves at once without a load;
\* one called on an empty store issues one load, at the call and never again;
\* no lookup step changes the store, only the completion of a load does.
C8_LookupFrame ==
    [][/\ \A n \in New :
             /\ (n.op \in Lookups /\ Old = {}) =>
                   /\ sistersData' = sistersData
                   /\ sistersData # <<>> => (n.pc = "done" /\ n.own = "none")
                   /\ sistersData = <<>> => n.pc = "fetch"
             /\ (n.op \in Lookups /\ n.pc = "fetch") => Old = {}
             /\ Resolves(n) => sistersData' = sistersData
       /\ sistersData' # sistersData => \E n \in New : LoadCompletes(n) /\ n.own # "none"]_vars

\* One lookup has resolved after its own load, another without any.
C8_Witness ==
    /\ sistersData # <<>>
    /\ \E r \in Pending : r.op \in Lookups /\ r.pc = "done" /\ r.own = "ok"
    /\ \E r \in Pending : r.op \in Lookups /\ r.pc = "done" /\ r.own = "none"

\* C9: the store is always empty or one whole parsed response.
C9_StoreIsOneResponse == sistersData \in Bodies

\* The store holds one response while a load is reading another, after a
\* load that succeeded and one that failed.
C9_Witness ==
    /\ sistersData = <<RecB>>
    /\ \E r \in Pending : r.pc = "json"
    /\ \E r \in Pending : r.pc = "done" /\ r.own = "ok" /\ r.ownBody = <<RecA1, RecA2>>

WellTyped(cand) ==
    LET ok(v) == v.t \in { "str", "undef" }
    IN  /\ cand.t = "obj"
        /\ ok(cand.name) /\ ok(cand.greeting) /\ ok(cand.message)
        /\ \A k \in 1..Len(cand.images.items) : ok(cand.images.items[k])

\* Missing, or blank after trimming.
Blank(v) == v.t = "undef" \/ \A i \in 1..Len(v.s) : v.s[i] = " "

RECURSIVE Ascending(_)
Ascending(S) ==
    IF S = {} THEN <<>>
    ELSE <<"Image URL " \o ToString(MinOf(S)) \o " is not valid">>
            \o Ascending(S \ { MinOf(S) })

\* The error list the claim describes for a candidate.
ExpectedErrors(cand) ==
    LET bad == { k \in 1..Len(cand.images.items) :
                    /\ cand.images.t = "arr"
                    /\ ~Blank(cand.images.items[k])
                    /\ ~IsValidURL(cand.images.items[k].s) }
    IN  (IF Blank(cand.name) THEN <<"Name is required">> ELSE <<>>)
        \o (IF Blank(cand.greeting) THEN <<"Greeting is required">> ELSE <<>>)
        \o (IF Blank(cand.message) THEN <<"Message is required">> ELSE <<>>)
        \o Ascending(bad)

\* C5 (as claimed): validateSisterData never raises, whatever the candidate.
C5_ValidateNeverRaises == vresult.called => ~vresult.threw

\* C6: every check runs; the errors are the name, greeting and message
\* errors in that order, then one per invalid non-blank image entry by
\* ascending 1-based index; isValid iff there is no error.
C6_ErrorsInOrder ==
    (vresult.called /\ WellTyped(candidate)) =>
        /\ ~vresult.threw
        /\ vresult.errors = ExpectedErrors(candidate)
        /\ vresult.isValid = (vresult.errors = <<>>)

\* All three fields are blank, the first image entry is blank and the second
\* an invalid URL.
C6_Witness ==
    /\ vresult.called
    /\ candidate.images = Arr(<<Str(<<" ">>), Str(<<"a">>)>>)
    /\ vresult.errors = << "Name is required", "Greeting is required",
                           "Message is required", "Image URL 2 is not valid" >>
    /\ ~vresult.isValid

====
